---- MODULE Spec2Model ----
(***************************************************************************)
(* Model of src/main.py: the expense registration batch.  One session of   *)
(* main() is a state machine whose steps are the calls main makes: the     *)
(* fiscal year, four termux-dialog prompts, the GspreadHandler calls, the  *)
(* toast, and the except/finally clauses.                                  *)
(*                                                                         *)
(* A Python str is a sequence of characters.  A character outside ASCII is *)
(* written by its reading ("shoku","hi" is the two characters of the first *)
(* category label), and a fixed literal that is never inspected is one     *)
(* element holding the whole literal.                                      *)
(***************************************************************************)
EXTENDS Integers, Sequences, FiniteSets, TLC

VARIABLES pc, today, date_moves, frame, exc, proc, calls, log

vars == <<pc, today, date_moves, frame, exc, proc, calls, log>>

----------------------------------------------------------------------------
(* Bounds *)

\* longest amount reply enumerated character by character
MaxAmountLen == 3

\* how many times the month can change while one session runs
MaxDateMoves == 1

----------------------------------------------------------------------------
(* Text *)

Lit(s) == <<s>>

Digits == <<"0", "1", "2", "3", "4", "5", "6", "7", "8", "9">>

DigitChars == {Digits[i] : i \in 1..10}

DigitVal(c) == (CHOOSE i \in 1..10 : Digits[i] = c) - 1

Whitespace == {" "}

TITLE == Lit("kakeibo")

Yes == <<"y", "e", "s">>

\* the 12 labels of the "-v" argument, in order
ExpenseTypes ==
    << <<"shoku", "hi">>, <<"kou", "tsuu", "hi">>, <<"yuu", "kyou", "hi">>,
       <<"zatsu", "hi">>, <<"sho", "seki", "hi">>, <<"i", "ryou", "hi">>,
       <<"ya", "chin">>, <<"kou", "netsu", "hi">>, <<"tsuu", "shin", "hi">>,
       <<"toku", "betsu", "kei", "hi">>, <<"kyuu", "yo">>,
       <<"zatsu", "sho", "toku">> >>

RECURSIVE Join(_, _)
Join(labels, sep) ==
    IF Len(labels) = 0 THEN <<>>
    ELSE IF Len(labels) = 1 THEN labels[1]
    ELSE labels[1] \o sep \o Join(Tail(labels), sep)

RECURSIVE NatToStr(_)
NatToStr(n) ==
    IF n < 10 THEN <<Digits[n + 1]>>
    ELSE NatToStr(n \div 10) \o <<Digits[(n % 10) + 1]>>

\* str(int) and the "{n}" of an f-string
IntToStr(n) == IF n < 0 THEN <<"-">> \o NatToStr(0 - n) ELSE NatToStr(n)

\* repr(str), without escapes
Repr(s) == <<"'">> \o s \o <<"'">>

RECURSIVE LStrip(_)
LStrip(s) ==
    IF s /= <<>> /\ Head(s) \in Whitespace THEN LStrip(Tail(s)) ELSE s

RECURSIVE RStrip(_)
RStrip(s) ==
    IF s /= <<>> /\ s[Len(s)] \in Whitespace
    THEN RStrip(SubSeq(s, 1, Len(s) - 1)) ELSE s

Strip(s) == RStrip(LStrip(s))

\* digits with single underscores between them: digit ("_"? digit)*
IsDigitPart(d) ==
    /\ Len(d) > 0
    /\ d[1] \in DigitChars
    /\ d[Len(d)] \in DigitChars
    /\ \A i \in 1..Len(d) : d[i] \in DigitChars \cup {"_"}
    /\ \A i \in 1..(Len(d) - 1) : ~(d[i] = "_" /\ d[i + 1] = "_")

RECURSIVE DigitPartVal(_, _)
DigitPartVal(d, acc) ==
    IF d = <<>> THEN acc
    ELSE IF Head(d) = "_" THEN DigitPartVal(Tail(d), acc)
    ELSE DigitPartVal(Tail(d), acc * 10 + DigitVal(Head(d)))

HasSign(s) == s /= <<>> /\ Head(s) \in {"+", "-"}

Unsigned(s) == IF HasSign(s) THEN Tail(s) ELSE s

\* whether int(s) accepts the str s (base 10)
IsIntLiteral(s) == IsDigitPart(Unsigned(Strip(s)))

IntLiteralVal(s) ==
    LET t == Strip(s)
        v == DigitPartVal(Unsigned(t), 0)
    IN  IF HasSign(t) /\ Head(t) = "-" THEN 0 - v ELSE v

----------------------------------------------------------------------------
(* Values crossing the process boundary *)

Ok(v) == [ok |-> TRUE, val |-> v]

Err(e) == [ok |-> FALSE, err |-> e]

Exception(cls, msg) == [cls |-> cls, msg |-> msg]

\* str(e)
ExcStr(e) == e.msg

JStr(s) == [t |-> "str", s |-> s]

JInt(n) == [t |-> "int", n |-> n]

JNull == [t |-> "null"]

\* a JSON object as termux-dialog prints it, keys "code" and "text"
JObject(v) == [t |-> "obj", o |-> [code |-> JInt(0 - 1), text |-> v]]

\* a JSON object without the key "text"
JObjectNoText == [t |-> "obj", o |-> [code |-> JInt(0 - 2)]]

JArray == [t |-> "arr"]

\* str(x) of a decoded JSON value
PyStr(v) ==
    IF v.t = "str" THEN v.s
    ELSE IF v.t = "int" THEN IntToStr(v.n)
    ELSE <<"N", "o", "n", "e">>

\* int(x) that takes text it cannot read as 0
PyIntLenient(v) ==
    IF v.t = "int" THEN Ok(v.n)
    ELSE IF v.t = "str" /\ IsIntLiteral(v.s) THEN Ok(IntLiteralVal(v.s))
    ELSE Ok(0)

\* int(x) of a decoded JSON value
PyInt(v) ==
    IF v.t = "int" THEN Ok(v.n)
    ELSE IF v.t = "str" THEN
        IF IsIntLiteral(v.s) THEN Ok(IntLiteralVal(v.s))
        ELSE Err(Exception("ValueError",
                Lit("invalid literal for int() with base 10: ") \o Repr(v.s)))
    ELSE Err(Exception("TypeError",
            Lit("int() argument must be a string, a bytes-like object or a real number, not 'NoneType'")))

\* data["text"]
SubscriptText(data) ==
    IF data.t /= "obj"
    THEN Err(Exception("TypeError", Lit("list indices must be integers or slices, not str")))
    ELSE IF "text" \notin DOMAIN data.o
    THEN Err(Exception("KeyError", Repr(<<"t", "e", "x", "t">>)))
    ELSE Ok(data.o.text)

----------------------------------------------------------------------------
(* Outcomes of subprocess.run *)

SpawnFailed == [kind |-> "oserror"]

TimedOut == [kind |-> "timeout"]

Exited(rc, stdout) == [kind |-> "exit", rc |-> rc, stdout |-> stdout]

BadUtf8 == [enc |-> "badutf8"]

NotJson == [enc |-> "utf8", json |-> FALSE]

JsonOut(data) == [enc |-> "utf8", json |-> TRUE, data |-> data]

ReturnCodes == {0, 1}

\* what a termux-dialog process can do, given the values "text" may carry
DialogOutcomes(values) ==
    {SpawnFailed, TimedOut}
    \cup {Exited(rc, so) : rc \in ReturnCodes,
                           so \in {BadUtf8, NotJson, JsonOut(JArray), JsonOut(JObjectNoText)}}
    \cup {Exited(rc, JsonOut(JObject(v))) : rc \in ReturnCodes, v \in values}

\* what termux-toast and termux-notification can do; their output is not read
NotifierOutcomes ==
    {SpawnFailed, TimedOut} \cup {Exited(rc, NotJson) : rc \in ReturnCodes}

\* subprocess.run(command, ..., timeout=30): returns or raises
SubprocessRun(command, out) ==
    IF out.kind = "oserror"
    THEN Err(Exception("FileNotFoundError",
            Lit("[Errno 2] No such file or directory: ") \o Repr(command[1])))
    ELSE IF out.kind = "timeout"
    THEN Err(Exception("TimeoutExpired",
            Lit("Command ") \o Repr(command[1]) \o Lit(" timed out after 30 seconds")))
    ELSE Ok(out)

exec_command(command, out) ==
    LET res == SubprocessRun(command, out)
    IN  IF ~res.ok THEN res
        ELSE IF res.val.stdout.enc /= "utf8"
        THEN Err(Exception("UnicodeDecodeError", Lit("'utf-8' codec can't decode byte")))
        ELSE IF ~res.val.stdout.json
        THEN Err(Exception("JSONDecodeError", Lit("Expecting value: line 1 column 1 (char 0)")))
        ELSE Ok(res.val.stdout.data)

----------------------------------------------------------------------------
(* Logging *)

LogRec(level, msg) == [level |-> level, msg |-> msg, exc_info |-> <<>>]

Info(msg) == LogRec("INFO", Lit(msg))

Debug(msg) == LogRec("DEBUG", msg)

\* the lines exec_command writes, d being what it returned or raised
ExecLog(command, d) ==
    <<Info("start 'exec_command' method"),
      Debug(Lit("execute command: ") \o Join(command, <<",", " ">>))>>
    \o (IF d.ok THEN <<Info("end 'exec_command' method")>> ELSE <<>>)

\* the lines toast and notify write, r being what subprocess.run did
NotifierLog(start, command, r, end) ==
    <<Info(start), Debug(Lit("execute command: ") \o Join(command, <<",", " ">>))>>
    \o (IF r.ok THEN <<Info(end)>> ELSE <<>>)

----------------------------------------------------------------------------
(* The functions of main.py *)

\* a fiscal year that begins in March
get_fiscal_year_march(date) ==
    IF date.month < 3 THEN date.year - 1 ELSE date.year

\* today is a date; the code reads its year and month only
get_fiscal_year(date) ==
    IF date.month < 4 THEN date.year - 1 ELSE date.year

BookName(current_fiscal_year) ==
    Lit("CF (") \o IntToStr(current_fiscal_year) \o <<"nen", "do", ")">>

SelectCommand ==
    <<Lit("termux-dialog"), Lit("sheet"), Lit("-t"), TITLE, Lit("-v"),
      Join(ExpenseTypes, <<",">>)>>

AmountCommand(expense_type) ==
    <<Lit("termux-dialog"), Lit("text"), Lit("-t"), TITLE, Lit("-i"),
      expense_type \o Lit("no kingaku wo nyuuryoku"), Lit("-n")>>

MemoCommand(expense_type) ==
    <<Lit("termux-dialog"), Lit("text"), Lit("-t"), TITLE, Lit("-i"),
      expense_type \o Lit("no memo wo nyuuryoku")>>

\* a summary that writes the separator before an empty memo too
SummaryAlwaysColon(expense_type, expense_amount, expense_memo) ==
    expense_type \o <<":">> \o expense_memo
    \o <<",", " ">> \o IntToStr(expense_amount) \o <<"en">>

\* "{type}{':'+memo if memo else ''}, {amount}en"
Summary(expense_type, expense_amount, expense_memo) ==
    expense_type
    \o (IF expense_memo /= <<>> THEN <<":">> \o expense_memo ELSE <<>>)
    \o <<",", " ">> \o IntToStr(expense_amount) \o <<"en">>

ConfirmCommand(expense_type, expense_amount, expense_memo) ==
    <<Lit("termux-dialog"), Lit("confirm"), Lit("-t"), TITLE, Lit("-i"),
      Lit("ika no naiyou de touroku shimasuka?\n\t")
        \o Summary(expense_type, expense_amount, expense_memo)>>

ToastCommand(content) ==
    <<Lit("termux-toast"), Lit("-b"), Lit("black"), Lit("-g"), Lit("top"), content>>

ToastContent(expense_type, expense_amount, expense_memo) ==
    Lit("kakeibo heno touroku ga kanryou shimashita. ")
    \o Summary(expense_type, expense_amount, expense_memo)

FailureTitle == Lit("kakeibo no touroku ni shippai shimashita.")

NotifyCommand(title, content) ==
    <<Lit("termux-notification"), Lit("--title"), title, Lit("--content"), content>>

\* data["text"] of what exec_command returned, or the exception on the way
ReplyText(command, out) ==
    LET data == exec_command(command, out)
    IN  IF ~data.ok THEN data ELSE SubscriptText(data.val)

\* select_expense_type that falls back to the first label for a text not offered
select_expense_type_offered(out) ==
    LET text == ReplyText(SelectCommand, out)
    IN  IF ~text.ok THEN text
        ELSE IF \E i \in 1..Len(ExpenseTypes) : ExpenseTypes[i] = PyStr(text.val)
        THEN Ok(PyStr(text.val))
        ELSE Ok(ExpenseTypes[1])

select_expense_type(out) ==
    LET text == ReplyText(SelectCommand, out)
    IN  IF ~text.ok THEN text ELSE Ok(PyStr(text.val))

enter_expense_amount(expense_type, out) ==
    LET text == ReplyText(AmountCommand(expense_type), out)
    IN  IF ~text.ok THEN text ELSE PyInt(text.val)

\* enter_expense_memo that writes a dash for an empty memo
enter_expense_memo_dash(expense_type, out) ==
    LET text == ReplyText(MemoCommand(expense_type), out)
    IN  IF ~text.ok THEN text
        ELSE IF PyStr(text.val) = <<>> THEN Ok(<<"-">>)
        ELSE Ok(PyStr(text.val))

enter_expense_memo(expense_type, out) ==
    LET text == ReplyText(MemoCommand(expense_type), out)
    IN  IF ~text.ok THEN text ELSE Ok(PyStr(text.val))

\* the local "choice" of confirmation
ConfirmChoice(expense_type, expense_amount, expense_memo, out) ==
    LET text == ReplyText(ConfirmCommand(expense_type, expense_amount, expense_memo), out)
    IN  IF ~text.ok THEN text ELSE Ok(PyStr(text.val))

\* confirmation that compares the choice without regard to case
confirmation_anycase(expense_type, expense_amount, expense_memo, out) ==
    LET choice == ConfirmChoice(expense_type, expense_amount, expense_memo, out)
    IN  IF ~choice.ok THEN choice ELSE Ok(choice.val \in {Yes, <<"Y", "e", "s">>})

confirmation(expense_type, expense_amount, expense_memo, out) ==
    LET choice == ConfirmChoice(expense_type, expense_amount, expense_memo, out)
    IN  IF ~choice.ok THEN choice ELSE Ok(choice.val = Yes)

\* a main whose failed statement is run again
TryNextRetry(ok, next) == IF ok THEN next ELSE pc

\* a main that goes on to the toast when register_expense raised
TryNextSwallowRegister(ok, next) ==
    IF ok \/ next = "toast" THEN next ELSE "notify"

\* a main that runs the toast again when it raised
TryNextRetryToast(ok, next) ==
    IF ok THEN next ELSE IF next = "finally" /\ pc = "toast" THEN pc ELSE "notify"

\* try/except of main: a statement that raised transfers to the except clause
TryNext(ok, next) == IF ok THEN next ELSE "notify"

\* a main that registers whatever the answer
AfterConfirmationAlways(res) == "GspreadHandler"

\* a main that acknowledges a declined entry with the toast
AfterConfirmationToast(res) == IF res THEN "GspreadHandler" ELSE "toast"

\* a main that shows the toast before it registers
AfterConfirmationToastFirst(res) == IF res THEN "toast" ELSE "finally"

\* "if res:"
AfterConfirmation(res) == IF res THEN "GspreadHandler" ELSE "finally"

----------------------------------------------------------------------------
(* Inputs: the dates a session can start on and what the outside can reply *)

Years == {2024}

\* the months around the start of the fiscal year and the end of the calendar year
Months == {2, 3, 4, 12}

Dates == [year : Years, month : Months]

\* every month of eleven years, for get_fiscal_year alone
FiscalDates == [year : 2019..2029, month : 1..12]

BoundedSeq(S, n) == UNION {[1..k -> S] : k \in 0..n}

AmountChars == {"1", "-", "_", "a"}

AmountTexts ==
    BoundedSeq(AmountChars, MaxAmountLen)
    \cup {<<"1", "5", "0", "0">>, <<"8", "0", "0">>, <<"a", "b", "c">>,
          <<" ", "1", " ">>, <<"+", "0", "1">>, <<"1", ".", "5">>}

CategoryValues ==
    {JStr(ExpenseTypes[1]), JStr(ExpenseTypes[2]), JStr(<<"x">>), JStr(<<>>), JNull}

AmountValues == {JStr(s) : s \in AmountTexts} \cup {JInt(800), JNull}

MemoValues == {JStr(<<>>), JStr(<<"l", "u", "n", "c", "h">>)}

ConfirmValues ==
    {JStr(Yes), JStr(<<"Y", "e", "s">>), JStr(<<"y">>), JStr(<<"n", "o">>),
     JStr(<<>>), JNull, JInt(1)}

\* what GspreadHandler(bookname) and register_expense can raise
ConstructErrors(bookname) == {Exception("SpreadsheetNotFound", bookname)}

RegisterErrors == {Exception("APIError", Lit("RESOURCE_EXHAUSTED"))}

----------------------------------------------------------------------------
(* State *)

NoLocals == [name \in {} |-> 0]

Bind(name, value) == frame @@ (name :> value)

\* one entry of the trace of calls main made outside itself; ok: the statement of
\* main that made the call completed without raising
RunCall(command, ok) == [op |-> "run", cmd |-> command, ok |-> ok]

Init ==
    /\ pc = "get_fiscal_year"
    /\ today \in Dates
    /\ date_moves = 0
    /\ frame = NoLocals
    /\ exc = <<>>
    /\ proc = <<>>
    /\ calls = <<>>
    /\ log = <<>>

\* main, lines 33-36
GetFiscalYear ==
    /\ pc = "get_fiscal_year"
    /\ LET current_fiscal_year == get_fiscal_year(today)
       IN  frame' = frame @@ ("current_fiscal_year" :> current_fiscal_year)
                          @@ ("bookname" :> BookName(current_fiscal_year))
    /\ log' = log \o <<Info("start 'main' method"),
                       Info("start 'get_fiscal_year' method"),
                       Info("end 'get_fiscal_year' method")>>
    /\ pc' = "select_expense_type"
    /\ UNCHANGED <<today, date_moves, exc, proc, calls>>

\* what a prompt step leaves behind: r is what the step returned or raised
StepEffect(name, command, out, r, local, logged, next) ==
    /\ proc' = <<out>>
    /\ calls' = Append(calls, RunCall(command, r.ok))
    /\ log' = log \o <<Info("start '" \o name \o "' method")>>
                  \o ExecLog(command, exec_command(command, out))
                  \o (IF r.ok THEN <<Debug(logged), Info("end '" \o name \o "' method")>>
                      ELSE <<>>)
    /\ frame' = IF r.ok THEN Bind(local, r.val) ELSE frame
    /\ exc' = IF r.ok THEN <<>> ELSE <<r.err>>
    /\ pc' = next
    /\ UNCHANGED <<today, date_moves>>

\* main line 37
SelectExpenseType ==
    /\ pc = "select_expense_type"
    /\ \E out \in DialogOutcomes(CategoryValues) :
         LET r == select_expense_type(out)
         IN  StepEffect("select_expense_type", SelectCommand, out, r, "expense_type",
                        IF r.ok THEN Lit("expense_type: ") \o r.val ELSE <<>>,
                        TryNext(r.ok, "enter_expense_amount"))

\* main line 38
EnterExpenseAmount ==
    /\ pc = "enter_expense_amount"
    /\ \E out \in DialogOutcomes(AmountValues) :
         LET r == enter_expense_amount(frame.expense_type, out)
         IN  StepEffect("enter_expense_amount", AmountCommand(frame.expense_type), out, r,
                        "expense_amount",
                        IF r.ok THEN Lit("expense_amount: ") \o IntToStr(r.val) ELSE <<>>,
                        TryNext(r.ok, "enter_expense_memo"))

\* main line 39
EnterExpenseMemo ==
    /\ pc = "enter_expense_memo"
    /\ \E out \in DialogOutcomes(MemoValues) :
         LET r == enter_expense_memo(frame.expense_type, out)
         IN  StepEffect("enter_expense_memo", MemoCommand(frame.expense_type), out, r,
                        "expense_memo",
                        IF r.ok THEN Lit("expense_memo: ") \o r.val ELSE <<>>,
                        TryNext(r.ok, "confirmation"))

\* main lines 40-41
Confirmation ==
    /\ pc = "confirmation"
    /\ \E out \in DialogOutcomes(ConfirmValues) :
         LET command == ConfirmCommand(frame.expense_type, frame.expense_amount,
                                       frame.expense_memo)
             choice == ConfirmChoice(frame.expense_type, frame.expense_amount,
                                     frame.expense_memo, out)
             r == confirmation(frame.expense_type, frame.expense_amount,
                               frame.expense_memo, out)
         IN  StepEffect("confirmation", command, out, r, "res",
                        IF choice.ok THEN Lit("choice: ") \o choice.val ELSE <<>>,
                        IF r.ok THEN AfterConfirmation(r.val) ELSE TryNext(FALSE, "finally"))

NextMonth(date) ==
    IF date.month = 12 THEN [year |-> date.year + 1, month |-> 1]
    ELSE [year |-> date.year, month |-> date.month + 1]

\* the calendar moves on while main waits for an answer or a call; main reads
\* the date once, in get_fiscal_year, and a move before that is a later start
DateAdvances ==
    /\ pc \notin {"get_fiscal_year", "returned", "raised"}
    /\ date_moves < MaxDateMoves
    /\ today' = NextMonth(today)
    /\ date_moves' = date_moves + 1
    /\ UNCHANGED <<pc, frame, exc, proc, calls, log>>

\* a main that names the ledger from the date at the time of the commit
CommitBookNameNow == BookName(get_fiscal_year(today))

\* the argument of GspreadHandler(bookname)
CommitBookName == frame.bookname

\* main line 42
Construct ==
    /\ pc = "GspreadHandler"
    /\ \E r \in {Ok([bookname |-> CommitBookName])}
                \cup {Err(e) : e \in ConstructErrors(CommitBookName)} :
         /\ calls' = Append(calls, [op |-> "GspreadHandler", bookname |-> CommitBookName,
                                    ok |-> r.ok])
         /\ frame' = IF r.ok THEN Bind("handler", r.val) ELSE frame
         /\ exc' = IF r.ok THEN <<>> ELSE <<r.err>>
         /\ pc' = TryNext(r.ok, "register_expense")
    /\ UNCHANGED <<today, date_moves, proc, log>>

\* main line 43
RegisterExpense ==
    /\ pc = "register_expense"
    /\ \E r \in {Ok(TRUE)} \cup {Err(e) : e \in RegisterErrors} :
         /\ calls' = Append(calls, [op |-> "register_expense",
                                    bookname |-> frame.handler.bookname,
                                    args |-> <<frame.expense_type, frame.expense_amount,
                                               frame.expense_memo>>,
                                    ok |-> r.ok])
         /\ exc' = IF r.ok THEN <<>> ELSE <<r.err>>
         /\ pc' = TryNext(r.ok, "toast")
    /\ UNCHANGED <<today, date_moves, frame, proc, log>>

\* main lines 44-46 and toast
Toast ==
    /\ pc = "toast"
    /\ \E out \in NotifierOutcomes :
         LET command == ToastCommand(ToastContent(frame.expense_type, frame.expense_amount,
                                                  frame.expense_memo))
             r == SubprocessRun(command, out)
         IN  /\ proc' = <<out>>
             /\ calls' = Append(calls, RunCall(command, r.ok))
             /\ log' = log \o NotifierLog("start 'toast' method", command, r,
                                          "end 'toast' method")
             /\ exc' = IF r.ok THEN <<>> ELSE <<r.err>>
             /\ pc' = TryNext(r.ok, "finally")
    /\ UNCHANGED <<today, date_moves, frame>>

\* main line 48 and notify: an exception raised here leaves the except clause
Notify ==
    /\ pc = "notify"
    /\ \E out \in NotifierOutcomes :
         LET command == NotifyCommand(FailureTitle, ExcStr(exc[1]))
             r == SubprocessRun(command, out)
         IN  /\ proc' = <<out>>
             /\ calls' = Append(calls, RunCall(command, r.ok))
             /\ log' = log \o NotifierLog("start 'notify' method", command, r,
                                          "end 'notify' method")
             /\ exc' = IF r.ok THEN exc ELSE <<r.err>>
             /\ pc' = IF r.ok THEN "log_exception" ELSE "finally"
    /\ UNCHANGED <<today, date_moves, frame>>

\* main line 49: log.exception, after which the exception is handled
LogException ==
    /\ pc = "log_exception"
    /\ log' = Append(log, [level |-> "ERROR", msg |-> Lit("error occurred"),
                           exc_info |-> exc])
    /\ exc' = <<>>
    /\ pc' = "finally"
    /\ UNCHANGED <<today, date_moves, frame, proc, calls>>

\* main lines 50-51: main returns, or the pending exception leaves main
Finally ==
    /\ pc = "finally"
    /\ log' = Append(log, Info("end 'main' method"))
    /\ pc' = IF exc = <<>> THEN "returned" ELSE "raised"
    /\ UNCHANGED <<today, date_moves, frame, exc, proc, calls>>

Next ==
    \/ GetFiscalYear
    \/ SelectExpenseType
    \/ EnterExpenseAmount
    \/ EnterExpenseMemo
    \/ Confirmation
    \/ Construct
    \/ RegisterExpense
    \/ Toast
    \/ Notify
    \/ LogException
    \/ Finally
    \/ DateAdvances

Spec == Init /\ [][Next]_vars

\* get_fiscal_year on its own, applied to every date of FiscalDates
FiscalInit ==
    /\ pc = "get_fiscal_year"
    /\ today \in FiscalDates
    /\ date_moves = 0
    /\ frame = NoLocals
    /\ exc = <<>>
    /\ proc = <<>>
    /\ calls = <<>>
    /\ log = <<>>

FiscalNext == GetFiscalYear

FiscalSpec == FiscalInit /\ [][FiscalNext]_vars

\* the statements of main, without the calendar
MainStep ==
    \/ GetFiscalYear
    \/ SelectExpenseType
    \/ EnterExpenseAmount
    \/ EnterExpenseMemo
    \/ Confirmation
    \/ Construct
    \/ RegisterExpense
    \/ Toast
    \/ Notify
    \/ LogException
    \/ Finally

\* every call main makes returns, raises or times out (timeout=30), so the
\* statement main is at is eventually executed
FairSpec == Spec /\ WF_vars(MainStep)

----------------------------------------------------------------------------
(* Reading the trace *)

Last(s) == s[Len(s)]

IsTool(c, tool) == c.op = "run" /\ c.cmd[1] = Lit(tool)

IsDialogCall(c) == IsTool(c, "termux-dialog")

IsToastCall(c) == IsTool(c, "termux-toast")

IsNotifyCall(c) == IsTool(c, "termux-notification")

IsConstructCall(c) == c.op = "GspreadHandler"

IsRegisterCall(c) == c.op = "register_expense"

IsPersistenceCall(c) == IsConstructCall(c) \/ IsRegisterCall(c)

\* 1..4: SelectCategory, EnterAmount, EnterMemo, Confirm
PromptKind(c) ==
    IF c.cmd[2] = Lit("sheet") THEN 1
    ELSE IF c.cmd[2] = Lit("confirm") THEN 4
    ELSE IF Last(c.cmd) = Lit("-n") THEN 2
    ELSE 3

IsAmountCall(c) == IsDialogCall(c) /\ PromptKind(c) = 2

Indices(P(_)) == {i \in 1..Len(calls) : P(calls[i])}

Count(P(_)) == Cardinality(Indices(P))

Failed(P(_)) == \E i \in Indices(P) : ~calls[i].ok

Terminal == pc \in {"returned", "raised"}

\* the confirm-step response texts the session logged
LoggedChoices ==
    {Tail(log[i].msg) : i \in {j \in 1..Len(log) : /\ log[j].level = "DEBUG"
                                                   /\ Head(log[j].msg) = "choice: "}}

ErrorLogs == {i \in 1..Len(log) : log[i].level = "ERROR"}

Cancelled == "res" \in DOMAIN frame /\ ~frame.res

\* a prompt step or a persistence call raised
PrimaryFailure == Failed(IsDialogCall) \/ Failed(IsPersistenceCall)

----------------------------------------------------------------------------
(* Claims *)

\* C1: register_expense has been invoked only if the category, amount and memo
\* steps completed, the confirmation response text was exactly "yes", and
\* nothing failed or was declined before it.
C1_RegisterOnlyAfterYes ==
    Count(IsRegisterCall) > 0 =>
        /\ {"expense_type", "expense_amount", "expense_memo", "res"} \subseteq DOMAIN frame
        /\ frame.res
        /\ LoggedChoices = {Yes}
        /\ \A i \in Indices(IsRegisterCall) :
              /\ i = 6
              /\ \A j \in 1..(i - 1) : calls[j].ok /\ ~IsNotifyCall(calls[j])
              /\ \A j \in 1..4 : IsDialogCall(calls[j]) /\ PromptKind(calls[j]) = j

C1_Witness == pc = "toast" /\ Count(IsRegisterCall) = 1

\* C2 as stated: a session that received a confirm-step response has called
\* register_expense exactly once if the text is "yes" and never otherwise.
C2_Original ==
    (Terminal /\ "res" \in DOMAIN frame) =>
        Count(IsRegisterCall) = IF LoggedChoices = {Yes} THEN 1 ELSE 0

\* C2 amended: a session that received a confirm-step response has called
\* register_expense exactly once if the text is "yes" and GspreadHandler(bookname)
\* was constructed without raising, and never otherwise.
C2_RegisterOnceIffYesAndConstructed ==
    (Terminal /\ "res" \in DOMAIN frame) =>
        Count(IsRegisterCall) =
            IF LoggedChoices = {Yes} /\ "handler" \in DOMAIN frame THEN 1 ELSE 0

C2_Witness ==
    /\ Terminal
    /\ LoggedChoices = {Yes}
    /\ "handler" \in DOMAIN frame
    /\ Count(IsRegisterCall) = 1

\* C3 as stated: a session not cancelled at the confirm step has shown exactly
\* one of the success toast and the failure alert when main is left.
C3_ExactlyOneNotification ==
    (Terminal /\ ~Cancelled) => Count(IsToastCall) + Count(IsNotifyCall) = 1

\* C4 as stated: a toast that failed raises no failure alert and the session
\* ends as a successful commit; a failed alert does not propagate out of main.
C4_NotifierFailureNotEscalated ==
    /\ Failed(IsToastCall) => (Count(IsNotifyCall) = 0 /\ pc \notin {"notify", "raised"})
    /\ Failed(IsNotifyCall) => pc /= "raised"

\* C5 as stated: a session in which a gateway call failed, the amount did not
\* parse or persistence raised, and a cancelled session, leave main normally.
C5_MainReturnsNormally ==
    (Terminal /\ (PrimaryFailure \/ Cancelled)) => pc = "returned"

\* C6 as stated: a gateway, validation or persistence failure is logged by
\* log.exception and alerted exactly once, the alert carrying the fixed title
\* and the stringified failure.
C6_FailureLoggedAndAlerted ==
    (Terminal /\ PrimaryFailure) =>
        /\ Count(IsNotifyCall) = 1
        /\ Cardinality(ErrorLogs) = 1
        /\ \A i \in Indices(IsNotifyCall) : \A j \in ErrorLogs :
              /\ calls[i].cmd[3] = FailureTitle
              /\ log[j].exc_info /= <<>>
              /\ calls[i].cmd[5] = ExcStr(log[j].exc_info[1])

\* C7: if GspreadHandler(bookname) or register_expense raised, the session
\* emits no toast and at most one alert, and exactly one alert by the time
\* main is left.
C7_PersistenceFailureAlertsOnce ==
    Failed(IsPersistenceCall) =>
        /\ Count(IsToastCall) = 0
        /\ Count(IsNotifyCall) <= 1
        /\ pc /= "notify" => Count(IsNotifyCall) = 1
        /\ LoggedChoices = {Yes}

C7_Witness ==
    /\ Terminal
    /\ Failed(IsRegisterCall)
    /\ Count(IsNotifyCall) = 1

\* the subordinate process ended and printed an object with a text field
HasText(out) ==
    /\ out.kind = "exit"
    /\ out.stdout.enc = "utf8"
    /\ out.stdout.json
    /\ out.stdout.data.t = "obj"
    /\ "text" \in DOMAIN out.stdout.data.o

\* the subordinate process timed out, could not be started, ended with a
\* non-zero status, or printed something that is not an object with a text field
Anomalous(out) == ~HasText(out) \/ out.rc /= 0

\* C8 as stated: a prompt step whose subordinate process timed out, ended with
\* a non-zero status or printed no payload with a text field does not proceed
\* with a value.
C8_AnomalousCallFails ==
    (calls /= <<>> /\ IsDialogCall(Last(calls)) /\ Anomalous(proc[1]))
        => ~Last(calls).ok

\* the amount prompt was the last call and its process printed the str s as text
AmountReplied(s) ==
    /\ calls /= <<>>
    /\ IsAmountCall(Last(calls))
    /\ HasText(proc[1])
    /\ proc[1].stdout.data.o.text = JStr(s)

\* the integers whose decimal numeral is looked for among the amount replies
NumeralRange == (0 - 111)..111 \cup {800, 1500}

Numeral == [n \in NumeralRange |-> IntToStr(n)]

\* a character no integer literal contains
Foreign(c) == c \notin DigitChars \cup {"+", "-", "_"} \cup Whitespace

\* C9: an amount text with a character no integer literal contains (as "abc")
\* fails the session with ValueError: the amount prompt is issued once, the
\* memo and confirm prompts and register_expense never, and control is in the
\* failure branch; an amount text that is the decimal numeral of n gives
\* expense_amount = n.
C9_AmountParseOrFail ==
    /\ (calls /= <<>> /\ IsAmountCall(Last(calls)) /\ HasText(proc[1])) =>
       \A s \in AmountTexts :
          AmountReplied(s) =>
              /\ (\E k \in 1..Len(s) : Foreign(s[k])) =>
                    /\ ~Last(calls).ok
                    /\ pc = "notify"
                    /\ exc /= <<>> /\ exc[1].cls = "ValueError"
                    /\ "expense_amount" \notin DOMAIN frame
              /\ \A n \in NumeralRange : Numeral[n] = s =>
                    /\ Last(calls).ok
                    /\ pc = "enter_expense_memo"
                    /\ frame.expense_amount = n
    /\ Failed(IsAmountCall) =>
          /\ Count(IsAmountCall) = 1
          /\ Count(IsDialogCall) = 2
          /\ Count(IsPersistenceCall) = 0
          /\ Count(IsToastCall) = 0
          /\ pc \in {"notify", "log_exception", "finally", "returned", "raised"}
          /\ pc /= "notify" => Count(IsNotifyCall) = 1

C9_Witness ==
    /\ pc = "returned"
    /\ Failed(IsAmountCall)
    /\ \E i \in Indices(IsNotifyCall) :
          calls[i].cmd[5] = Lit("invalid literal for int() with base 10: ")
                            \o Repr(<<"a", "b", "c">>)

\* C10: the prompts are issued in the order SelectCategory, EnterAmount,
\* EnterMemo, Confirm, each at most once and only after every earlier call
\* returned; after a call that raised, the only later call is the failure alert.
C10_PromptsInOrder ==
    /\ \A i \in Indices(IsDialogCall) :
          /\ PromptKind(calls[i]) = i
          /\ \A j \in 1..(i - 1) : calls[j].ok
    /\ \A i \in 1..Len(calls) :
          (~calls[i].ok /\ ~IsNotifyCall(calls[i])) =>
              \/ i = Len(calls) /\ pc = "notify"
              \/ i + 1 = Len(calls) /\ IsNotifyCall(calls[i + 1])

C10_Witness ==
    /\ Count(IsDialogCall) = 4
    /\ Failed(IsDialogCall)
    /\ pc = "log_exception"

IsConfirmCall(c) == IsDialogCall(c) /\ PromptKind(c) = 4

\* C11: within one session each of the four prompts, the construction of the
\* handler, register_expense, the toast and the alert is executed at most
\* once, also after a call that timed out or failed otherwise.
C11_NoRetry ==
    /\ \A k \in 1..4 :
          Cardinality({i \in Indices(IsDialogCall) : PromptKind(calls[i]) = k}) <= 1
    /\ Count(IsConstructCall) <= 1
    /\ Count(IsRegisterCall) <= 1
    /\ Count(IsToastCall) <= 1
    /\ Count(IsNotifyCall) <= 1

C11_Witness ==
    /\ Terminal
    /\ Len(calls) = 8
    /\ Failed(IsToastCall)
    /\ Failed(IsNotifyCall)

\* C12: when the confirm-step response is any string other than "yes" the
\* session is cancelled with no further action: no handler is constructed,
\* register_expense is not called, no toast and no alert is emitted, and no
\* error is raised or logged.
C12_CancelIsSilent ==
    ("res" \in DOMAIN frame /\ LoggedChoices /= {Yes}) =>
        /\ Cancelled
        /\ pc \in {"finally", "returned"}
        /\ Len(calls) = 4
        /\ IsConfirmCall(Last(calls))
        /\ Count(IsPersistenceCall) = 0
        /\ Count(IsToastCall) = 0
        /\ Count(IsNotifyCall) = 0
        /\ exc = <<>>
        /\ ErrorLogs = {}

C12_Witness ==
    /\ pc = "returned"
    /\ Cancelled
    /\ LoggedChoices = {<<"n", "o">>}

\* C13: a toast is emitted only after register_expense of the same session
\* returned without raising, every call before it having returned; a session
\* that failed or was cancelled before that point emits no toast.
C13_ToastOnlyAfterCommit ==
    /\ \A i \in Indices(IsToastCall) :
          /\ i > 1
          /\ IsRegisterCall(calls[i - 1])
          /\ \A j \in 1..(i - 1) : calls[j].ok
          /\ LoggedChoices = {Yes}
    /\ (Cancelled \/ PrimaryFailure) => Count(IsToastCall) = 0

C13_Witness ==
    /\ pc = "returned"
    /\ Count(IsToastCall) = 1
    /\ ~Failed(IsToastCall)

\* the labels the SelectCategory prompt offers
OfferedLabels == {ExpenseTypes[i] : i \in 1..Len(ExpenseTypes)}

\* the category prompt was the last call and its process printed the str s as text
CategoryReplied(s) ==
    /\ calls /= <<>>
    /\ IsDialogCall(Last(calls))
    /\ PromptKind(Last(calls)) = 1
    /\ HasText(proc[1])
    /\ proc[1].stdout.data.o.text = JStr(s)

\* C14 as stated: the category of every entry handed to register_expense is
\* non-empty and one of the offered labels.
C14_Original ==
    \A i \in Indices(IsRegisterCall) :
        calls[i].args[1] /= <<>> /\ calls[i].args[1] \in OfferedLabels

\* C14 amended: the category of every entry handed to register_expense is the
\* text the SelectCategory prompt returned, unvalidated; it is non-empty and
\* one of the offered labels exactly when the prompt tool returned such a text.
C14_CategoryIsReplyVerbatim ==
    /\ \A v \in CategoryValues :
          (v.t = "str" /\ CategoryReplied(v.s)) =>
              /\ Last(calls).ok
              /\ frame.expense_type = v.s
    /\ \A i \in Indices(IsRegisterCall) :
          /\ calls[i].args[1] = frame.expense_type
          /\ \E j \in 1..Len(log) :
                log[j].msg = Lit("expense_type: ") \o calls[i].args[1]

C14_Witness ==
    /\ Count(IsRegisterCall) = 1
    /\ frame.expense_type = <<"x">>
    /\ frame.expense_type \notin OfferedLabels

PrevMonth(date) ==
    IF date.month = 1 THEN [year |-> date.year - 1, month |-> 12]
    ELSE [year |-> date.year, month |-> date.month - 1]

RECURSIVE MonthsBack(_, _)
MonthsBack(date, k) == IF k = 0 THEN date ELSE MonthsBack(PrevMonth(date), k - 1)

\* the date the session started on, which get_fiscal_year read
StartDate == MonthsBack(today, date_moves)

\* C15: get_fiscal_year returns year - 1 when the month of the date it reads
\* is 1, 2 or 3 and year when it is 4 through 12, and it never raises.
C15_FiscalYearPolicy ==
    pc /= "get_fiscal_year" =>
        /\ "current_fiscal_year" \in DOMAIN frame
        /\ StartDate.month \in 1..12
        /\ StartDate.month \in {1, 2, 3} => frame.current_fiscal_year = StartDate.year - 1
        /\ StartDate.month \in 4..12 => frame.current_fiscal_year = StartDate.year
        /\ pc = "select_expense_type" => exc = <<>>

C15_Witness ==
    /\ pc = "select_expense_type"
    /\ StartDate = [year |-> 2024, month |-> 3]
    /\ frame.current_fiscal_year = 2023

\* the prompt of kind k was the last call and its process printed the str s as text
PromptReplied(k, s) ==
    /\ calls /= <<>>
    /\ IsDialogCall(Last(calls))
    /\ PromptKind(Last(calls)) = k
    /\ HasText(proc[1])
    /\ proc[1].stdout.data.o.text = JStr(s)

\* "CF (<fiscal year>nendo)"
LedgerName(fiscal_year) ==
    <<"CF (">> \o IntToStr(fiscal_year) \o <<"nen", "do", ")">>

\* C16: the values handed to register_expense are the values collected: the
\* category and the memo are the response texts verbatim (the empty memo
\* included), the amount is the integer the amount text is the numeral of, and
\* the handler is constructed with "CF (<fiscal year>nendo)".
C16_EntryIsWhatWasCollected ==
    /\ \A v \in CategoryValues :
          (v.t = "str" /\ PromptReplied(1, v.s)) => frame.expense_type = v.s
    /\ \A v \in MemoValues :
          (v.t = "str" /\ PromptReplied(3, v.s)) => frame.expense_memo = v.s
    /\ (calls /= <<>> /\ IsAmountCall(Last(calls)) /\ HasText(proc[1])) =>
       \A n \in NumeralRange :
          PromptReplied(2, Numeral[n]) => frame.expense_amount = n
    /\ \A i \in Indices(IsPersistenceCall) :
          calls[i].bookname = LedgerName(frame.current_fiscal_year)
    /\ \A i \in Indices(IsRegisterCall) :
          /\ calls[i].args = <<frame.expense_type, frame.expense_amount, frame.expense_memo>>
          /\ \E j \in 1..Len(log) : log[j].msg = Lit("expense_type: ") \o calls[i].args[1]
          /\ \E j \in 1..Len(log) :
                log[j].msg = Lit("expense_amount: ") \o IntToStr(calls[i].args[2])
          /\ \E j \in 1..Len(log) : log[j].msg = Lit("expense_memo: ") \o calls[i].args[3]

\* 2024-02, "shokuhi", "800", "", "yes": register_expense("shokuhi", 800, "")
\* against "CF (2023nendo)"
C16_Witness ==
    /\ StartDate = [year |-> 2024, month |-> 2]
    /\ \E i \in Indices(IsRegisterCall) :
          /\ calls[i].ok
          /\ calls[i].bookname = <<"CF (", "2", "0", "2", "3", "nen", "do", ")">>
          /\ calls[i].args = << <<"shoku", "hi">>, 800, <<>> >>

\* the summary the locals of main give: the category, ":" and the memo if the
\* memo is not empty, ", ", the amount and "en"
ExpectedSummary ==
    IF frame.expense_memo = <<>>
    THEN frame.expense_type \o <<",", " ">> \o IntToStr(frame.expense_amount) \o <<"en">>
    ELSE frame.expense_type \o <<":">> \o frame.expense_memo
         \o <<",", " ">> \o IntToStr(frame.expense_amount) \o <<"en">>

\* C17: the text after the fixed opening of the confirm prompt and of the
\* success toast is the category, ":" and the memo if and only if the memo is
\* not empty, then ", ", the amount and "en".
C17_SummaryText ==
    /\ \A i \in Indices(IsConfirmCall) : Tail(calls[i].cmd[6]) = ExpectedSummary
    /\ \A i \in Indices(IsToastCall) : Tail(calls[i].cmd[6]) = ExpectedSummary

C17_Witness ==
    /\ Count(IsToastCall) = 1
    /\ frame.expense_memo = <<>>
    /\ \E i \in Indices(IsToastCall) :
          Tail(calls[i].cmd[6]) = <<"shoku", "hi", ",", " ", "8", "0", "0", "en">>

\* the entry was handed over and register_expense returned
Committed == \E i \in Indices(IsRegisterCall) : calls[i].ok

\* the except clause of main was entered
FailedOutcome == pc \in {"notify", "log_exception"} \/ Count(IsNotifyCall) > 0

\* C18 as stated: when main is left it has returned, having reached exactly
\* one of Committed, Cancelled and Failed.
C18_ReturnsWithOneOutcome ==
    Terminal =>
        /\ pc = "returned"
        /\ Cardinality({o \in {"Committed", "Cancelled", "Failed"} :
                           \/ o = "Committed" /\ Committed
                           \/ o = "Cancelled" /\ Cancelled
                           \/ o = "Failed" /\ FailedOutcome}) = 1

\* main is eventually left
C18_Terminates == <>Terminal

\* C19: the fiscal year is resolved once, before the first prompt, and the
\* ledger named at the commit is that of the date the session started on,
\* whatever the date has become since.
C19_LedgerOfStartDate ==
    /\ pc /= "get_fiscal_year" =>
          Cardinality({j \in 1..Len(log) :
                          log[j].msg = Lit("start 'get_fiscal_year' method")}) = 1
    /\ calls /= <<>> => "current_fiscal_year" \in DOMAIN frame
    /\ \A i \in Indices(IsPersistenceCall) :
          calls[i].bookname =
              LedgerName(IF StartDate.month <= 3 THEN StartDate.year - 1
                         ELSE StartDate.year)

C19_Witness ==
    /\ StartDate = [year |-> 2024, month |-> 3]
    /\ today = [year |-> 2024, month |-> 4]
    /\ \E i \in Indices(IsRegisterCall) :
          calls[i].bookname = <<"CF (", "2", "0", "2", "3", "nen", "do", ")">>

====
